---- MODULE Spec2Model ----
(***************************************************************************)
(* knvectis: the typed containment hierarchy (Leaf, Branch, Tree, Node,    *)
(* Net, Layer, Matrix) with its composition operators and retention        *)
(* policy (_base.py, _objects.py), the identifier registry gen_id          *)
(* (_objects.py) and the traverser / hunter / engine (_engine.py); the     *)
(* Matrix and Layer lifecycle hooks, the `with` block, the * and /         *)
(* operators and KMatchContext.matches.                                    *)
(***************************************************************************)
EXTENDS Integers, Sequences, FiniteSets, TLC

VARIABLES
    objs,       \* the objects the client has built in this run
    parent,     \* KObject.parent of every object: an object or None
    children,   \* KObject.metadata["children"] of every object
    retention,  \* the retention field of every object: a policy or NoPolicy
    retained,   \* KRetentionPolicy.retained, one list per list object
    index,      \* Net.index, as the set of the objects registered
    active,     \* Matrix.active
    last,       \* the last operator call: what was called and how it ended
    genIds,     \* _GEN_IDS, the registered ids
    lock,       \* _GEN_IDS_LOCK: the thread that holds it, or NoThread
    thr,        \* every thread's place in gen_id()
    returned,   \* what the gen_id() calls have returned, in order
    resolvers,  \* the traverser's children, parent and transversal resolvers
    hunters,    \* KEngine.hunters
    phase,      \* "build", then "run" while traverse() is consumed, then "done"
    start,      \* the node traverse() was started at
    queue,      \* traverse()'s deque of (node, path)
    visited,    \* traverse()'s visited set
    yielded,    \* the (node, path) pairs traverse() has yielded, in order
    out,        \* the contexts KEngine.run() has yielded, in order
    storage,    \* Layer.storage: whether one is bound, and the calls it got
    scope,      \* the `with node:` block the client is in, if any
    match       \* the last KMatchContext.matches(obj) call

treeVars == <<objs, parent, children, retention, retained, index, active, last>>

genVars == <<genIds, lock, thr, returned>>

travVars == <<resolvers, hunters, phase, start, queue, visited, yielded, out>>

lifeVars == <<storage, scope>>

matchVars == <<match>>

vars == <<treeVars, genVars, travVars, lifeVars, matchVars>>

-----------------------------------------------------------------------------
(* Bounds of the model.                                                    *)

\* largest max_size a policy is built with
MaxSize == 1
\* longest retained list a run builds (the list is never cleared by the code)
MaxRetained == 1
\* threads calling gen_id(), calls each makes, candidates the entropy
\* source can draw
NumThreads == 2
MaxCalls == 2
MaxCand == 2
\* edges the resolvers of a traversed graph have in all; of a graph an
\* engine is run over; hunters registered
MaxEdges == 3
MaxEngineEdges == 2
MaxHunters == 2
\* storage calls recorded per layer
MaxLog == 2
\* largest n of node * n, and parts of node / parts
MaxCount == 2

-----------------------------------------------------------------------------
(* The objects. Each is one Python object; its class, id and content are   *)
(* fixed at construction.                                                  *)

None == "None"
NoPolicy == [none |-> TRUE]

Kinds == <<"Leaf", "Branch", "Tree", "Node", "Net", "Layer", "Matrix">>

Leaves == {"L1", "L2", "L3"}
Branches == {"B1", "B2"}
Trees == {"T1", "T2"}
Nodes == {"D1", "D2"}
Nets == {"N1", "N2"}
Layers == {"Y1", "Y2"}
Matrices == {"M1", "M2"}
Containers == Branches \cup Trees \cup Nodes \cup Nets \cup Layers \cup Matrices
Objs == Containers \cup Leaves

KindOf(o) ==
    CASE o \in Leaves -> "Leaf"
      [] o \in Branches -> "Branch"
      [] o \in Trees -> "Tree"
      [] o \in Nodes -> "Node"
      [] o \in Nets -> "Net"
      [] o \in Layers -> "Layer"
      [] o \in Matrices -> "Matrix"
      [] OTHER -> "NoneType"

\* the id field: gen_id() by default; L2 and L3 are built with the same
\* explicit id (Leaf(id="dup", ...))
IdOf(o) == IF o \in {"L2", "L3"} THEN "dup" ELSE o

\* str(data) of Leaf/Branch/Tree/Node, the name of Layer/Matrix. The
\* leaves carry the same data; the containers keep the defaults, two
\* layers two names.
DataOf(o) ==
    CASE o \in Leaves -> "x"
      [] o \in Layers -> o
      [] o \in Matrices -> "Matrix"
      [] OTHER -> "None"

\* the allowed_children property of each class
AllowedChildren(k) ==
    CASE k = "Leaf" -> {"Leaf"}
      [] k = "Branch" -> {"Leaf"}
      [] k = "Tree" -> {"Branch"}
      [] k = "Node" -> {"Tree"}
      [] k = "Net" -> {"Node"}
      [] k = "Layer" -> {"Net"}
      [] k = "Matrix" -> {"Layer"}

\* The runs explored: two containers of one class with two objects of the
\* class it accepts (Branch, Layer); one container with two such objects
\* (Tree, Node, Net, Matrix); one Branch with two leaves of equal id; a
\* Tree, a Branch and two leaves.
Builds ==
    {{"B1", "B2", "L1", "L2"}, {"T1", "B1", "B2"}, {"D1", "T1", "T2"},
     {"N1", "D1", "D2"}, {"Y1", "Y2", "N1", "N2"}, {"M1", "Y1", "Y2"},
     {"B1", "L2", "L3"}, {"T1", "B1", "L1", "L2"}}

\* the containers of a run that have something to hold
Holders == {c \in objs \cap Containers :
              \E x \in objs : KindOf(x) \in AllowedChildren(KindOf(c))}

\* objects to offer as a child of the wrong class: a Leaf is wrong for
\* every container but a Branch, a Layer for every one but a Matrix
Strangers == {"L1", "Y1"}

-----------------------------------------------------------------------------
(* Equality. Every subclass is a @dataclass with eq left on and defines no *)
(* __eq__ of its own, so the generated field-tuple comparison replaces     *)
(* KObject.__eq__: same class, then the fields in order, each item by      *)
(* identity first and == second, stopping at the first that differs.       *)

RECURSIVE DataclassEq(_, _, _)
DataclassEq(h, a, b) ==
    /\ KindOf(a) = KindOf(b)
    /\ IdOf(a) = IdOf(b)
    /\ \/ h.parent[a] = h.parent[b]
       \/ /\ h.parent[a] # None
          /\ h.parent[b] # None
          /\ DataclassEq(h, h.parent[a], h.parent[b])
    /\ Len(h.children[a]) = Len(h.children[b])
    /\ \A i \in 1..Len(h.children[a]) :
          \/ h.children[a][i] = h.children[b][i]
          \/ DataclassEq(h, h.children[a][i], h.children[b][i])
    /\ DataOf(a) = DataOf(b)
    /\ h.retention[a] = h.retention[b]

\* what list.__contains__ and list.remove test: identity, then ==
Eq(h, a, b) == a = b \/ DataclassEq(h, a, b)

\* `other in children`
Contains(h, s, x) == \E i \in 1..Len(s) : Eq(h, s[i], x)

\* index of the first item == x, 0 if there is none
FirstIndex(h, s, x) ==
    IF Contains(h, s, x)
    THEN CHOOSE i \in 1..Len(s) :
            /\ Eq(h, s[i], x)
            /\ \A j \in 1..(i - 1) : ~Eq(h, s[j], x)
    ELSE 0

\* x is an item of s, by identity
InSeq(s, x) == \E i \in 1..Len(s) : s[i] = x

RemoveAt(s, i) == SubSeq(s, 1, i - 1) \o SubSeq(s, i + 1, Len(s))

-----------------------------------------------------------------------------
(* Hashes. sha1 is taken as injective on the formatted string, which is    *)
(* kept as the sequence of its parts.                                      *)

ParentId(h, o) == IF h.parent[o] = None THEN "None" ELSE IdOf(h.parent[o])

ChildIds(h, o) == [i \in 1..Len(h.children[o]) |-> IdOf(h.children[o][i])]

IdList(h, o) == <<"[">> \o ChildIds(h, o) \o <<"]">>

Hash(h, o) ==
    CASE KindOf(o) = "Leaf" -> <<DataOf(o), "|", ParentId(h, o)>>
      [] KindOf(o) \in {"Branch", "Tree", "Node"} ->
            <<DataOf(o), "|">> \o IdList(h, o) \o <<"|", ParentId(h, o)>>
      [] KindOf(o) = "Net" -> IdList(h, o)
      [] KindOf(o) \in {"Layer", "Matrix"} -> <<DataOf(o), "|">> \o IdList(h, o)

SHash(h, o) ==
    CASE KindOf(o) = "Branch" -> <<DataOf(o), "|", IdOf(o)>>
      [] KindOf(o) \in {"Leaf", "Tree", "Node"} -> <<DataOf(o)>>
      [] KindOf(o) = "Net" -> Hash(h, o)
      [] KindOf(o) \in {"Layer", "Matrix"} -> <<DataOf(o)>>

-----------------------------------------------------------------------------
(* The heap the operators work on, and what a call hands back.             *)

Heap ==
    [parent |-> parent, children |-> children, retention |-> retention,
     retained |-> retained, index |-> index]

Outcome(h, res) == [h |-> h, res |-> res]

\* KObject.__add__ without its allowed_children test
KObjectAddUnchecked(h, c, x) ==
    IF ~Contains(h, h.children[c], x)
    THEN Outcome([h EXCEPT !.parent[x] = c,
                           !.children[c] = Append(h.children[c], x)], "ok")
    ELSE Outcome(h, "ok")

\* KObject.__add__
KObjectAdd(h, c, x) ==
    IF KindOf(x) \notin AllowedChildren(KindOf(c))
    THEN Outcome(h, "TypeError")
    ELSE IF ~Contains(h, h.children[c], x)
         THEN Outcome([h EXCEPT !.parent[x] = c,
                                !.children[c] = Append(h.children[c], x)], "ok")
         ELSE Outcome(h, "ok")

\* KRetentionPolicy._notify
Notify(pol, victims) ==
    IF pol.notify = "RAISE" THEN "ValueError" ELSE "ok"

\* KRetentionPolicy.apply(container)
Apply(h, pol, c) ==
    LET kids == h.children[c]
        overflow == Len(kids) - pol.max_size
        split == Len(kids) - overflow
        victims == IF pol.prune_from = "FORWARD"
                   THEN SubSeq(kids, split + 1, Len(kids))
                   ELSE SubSeq(kids, 1, overflow)
        survivors == IF pol.prune_from = "FORWARD"
                     THEN SubSeq(kids, 1, split)
                     ELSE SubSeq(kids, overflow + 1, Len(kids))
        kept == IF pol.prune_type = "DISCARD"
                THEN [h.retained EXCEPT ![pol.retained] = @ \o victims]
                ELSE h.retained
    IN  IF overflow <= 0
        THEN Outcome(h, "ok")
        ELSE Outcome([h EXCEPT !.retained = kept, !.children[c] = survivors],
                     Notify(pol, victims))

\* Branch/Tree/Node/Layer.__add__: super().__add__, then retention.apply(self)
ContainerAdd(h, c, x) ==
    LET r == KObjectAdd(h, c, x)
    IN  IF r.res # "ok" \/ h.retention[c] = NoPolicy
        THEN r
        ELSE Apply(r.h, h.retention[c], c)

\* Matrix.__add__: super().__add__, then retention.apply(self.children); the
\* list has no metadata attribute
MatrixAdd(h, c, x) ==
    LET r == KObjectAdd(h, c, x)
    IN  IF r.res # "ok" \/ h.retention[c] = NoPolicy
        THEN r
        ELSE Outcome(r.h, "AttributeError")

\* the + operator of each class (Net and Leaf inherit KObject.__add__)
Add(h, c, x) ==
    CASE KindOf(c) \in {"Branch", "Tree", "Node", "Layer"} -> ContainerAdd(h, c, x)
      [] KindOf(c) = "Matrix" -> MatrixAdd(h, c, x)
      [] OTHER -> KObjectAdd(h, c, x)

\* KObject.__sub__ without its `other.parent is self` test
SubUnguarded(h, c, x) ==
    LET h1 == [h EXCEPT !.parent[x] = None]
        i == FirstIndex(h1, h1.children[c], x)
    IN  IF i = 0
        THEN Outcome(h1, "ValueError")
        ELSE Outcome([h1 EXCEPT !.children[c] = RemoveAt(@, i)], "ok")

\* KObject.__sub__
Sub(h, c, x) ==
    IF h.parent[x] = c
    THEN LET h1 == [h EXCEPT !.parent[x] = None]
             i == FirstIndex(h1, h1.children[c], x)
         IN  IF i = 0
             THEN Outcome(h1, "ValueError")
             ELSE Outcome([h1 EXCEPT !.children[c] = RemoveAt(@, i)], "ok")
    ELSE Outcome(h, "ok")

-----------------------------------------------------------------------------
(* Operations.                                                             *)

\* A call as `last` keeps it: the operator, its operands, how it ended
\* (ok, or the exception raised), what it returned, and the container's
\* children and the operand's parent as they were before the call.
Call(op, c, x, res, hooks) ==
    [op |-> op, c |-> c, x |-> x, res |-> res,
     ret |-> IF res = "ok" THEN x ELSE None,
     kids |-> children[c],
     par |-> IF x = None THEN None ELSE parent[x],
     act |-> IF c \in Matrices THEN active[c] ELSE FALSE,
     n |-> 0,
     hooks |-> hooks]

NoCall ==
    [op |-> "init", c |-> None, x |-> None, res |-> "ok", ret |-> None,
     kids |-> <<>>, par |-> None, act |-> FALSE, n |-> 0, hooks |-> <<>>]

\* Layer.on_load / on_unload: the call reaches the storage if one is bound
Hook(st, h) ==
    IF h[2] \in Layers /\ st[h[2]].bound
    THEN [st EXCEPT ![h[2]].calls =
             Append(@, IF h[1] = "on_load" THEN "load" ELSE "unload")]
    ELSE st

\* the hooks of a call, run in order
RECURSIVE Hooks(_, _)
Hooks(st, hs) ==
    IF hs = <<>> THEN st ELSE Hooks(Hook(st, Head(hs)), Tail(hs))

\* the storages' call lists are never cleared: stop a run that would
\* outgrow the bound
LogRoom(hs) ==
    \A i \in 1..Len(hs) :
        hs[i][2] \in Layers => Len(storage[hs[i][2]].calls) < MaxLog

Commit(r) ==
    /\ parent' = r.h.parent
    /\ children' = r.h.children
    /\ retention' = r.h.retention
    /\ retained' = r.h.retained
    /\ index' = r.h.index

\* the retained lists are never cleared: stop a run that would outgrow the bound
Room(c) ==
    IF retention[c] = NoPolicy
    THEN TRUE
    ELSE Len(retained[retention[c].retained]) < MaxRetained

\* container + child
Compose(c, x) ==
    /\ Room(c)
    /\ LET r == Add(Heap, c, x)
       IN  /\ Commit(r)
           /\ last' = Call("compose", c, x, r.res, <<>>)
    /\ UNCHANGED <<objs, active, genVars, travVars, lifeVars, matchVars>>

\* container - child
Decompose(c, x) ==
    /\ LET r == Sub(Heap, c, x)
       IN  /\ Commit(r)
           /\ last' = Call("decompose", c, x, r.res, <<>>)
    /\ UNCHANGED <<objs, active, genVars, travVars, lifeVars, matchVars>>

\* An object as its constructor leaves it: the typed constructors build
\* their child themselves.
Pristine(x) ==
    /\ parent[x] = None
    /\ children[x] = <<>>
    /\ retention[x] = NoPolicy
    /\ \A c \in Objs : ~InSeq(children[c], x)
    /\ \A l \in DOMAIN retained : ~InSeq(retained[l], x)
    /\ \A n \in DOMAIN index : x \notin index[n]

\* Branch.add_leaf: Leaf(data=...), then self + leaf
AddLeaf(c, x) ==
    /\ KindOf(c) = "Branch" /\ KindOf(x) = "Leaf"
    /\ Pristine(x)
    /\ Room(c)
    /\ LET r == Add(Heap, c, x)
       IN  /\ Commit(r)
           /\ last' = Call("add_leaf", c, x, r.res, <<>>)
    /\ UNCHANGED <<objs, active, genVars, travVars, lifeVars, matchVars>>

\* what add_branch and add_tree give the child for a policy: a copy of the
\* container's (copy.copy: the copy's retained is the same list) or none
Inherited(c, inherit) ==
    IF inherit /\ retention[c] # NoPolicy THEN retention[c] ELSE NoPolicy

\* Tree.add_branch and Node.add_tree: the child is built with the policy,
\* then self + child
AddChildContainer(op, c, x, inherit) ==
    /\ Pristine(x)
    /\ Room(c)
    /\ LET r == Add([Heap EXCEPT !.retention[x] = Inherited(c, inherit)], c, x)
       IN  /\ Commit(r)
           /\ last' = Call(op, c, x, r.res, <<>>)
    /\ UNCHANGED <<objs, active, genVars, travVars, lifeVars, matchVars>>

AddBranch(c, x, inherit) ==
    /\ KindOf(c) = "Tree" /\ KindOf(x) = "Branch"
    /\ AddChildContainer("add_branch", c, x, inherit)

AddTree(c, x, inherit) ==
    /\ KindOf(c) = "Node" /\ KindOf(x) = "Tree"
    /\ AddChildContainer("add_tree", c, x, inherit)

\* Net.add_node: Node(), self + node, register(node), then
\* retention.apply(children) on the list, which has no metadata
NetAddNode(h, c, x) ==
    LET r == KObjectAdd(h, c, x)
        h1 == [r.h EXCEPT !.index[c] = @ \cup {x}]
    IN  IF h.retention[c] = NoPolicy
        THEN Outcome(h1, "ok")
        ELSE Outcome(h1, "AttributeError")

AddNode(c, x) ==
    /\ KindOf(c) = "Net" /\ KindOf(x) = "Node"
    /\ Pristine(x)
    /\ LET r == NetAddNode(Heap, c, x)
       IN  /\ Commit(r)
           /\ last' = Call("add_node", c, x, r.res, <<>>)
    /\ UNCHANGED <<objs, active, genVars, travVars, lifeVars, matchVars>>

\* Layer.add_net(net) with a net the caller built; Layer.create_net()
\* builds it
AddNet(c, x) ==
    /\ KindOf(c) = "Layer" /\ KindOf(x) = "Net"
    /\ Room(c)
    /\ LET r == Add(Heap, c, x)
       IN  /\ Commit(r)
           /\ last' = Call("add_net", c, x, r.res, <<>>)
    /\ UNCHANGED <<objs, active, genVars, travVars, lifeVars, matchVars>>

\* the hooks a cascade fires: one per Layer child, in order
Cascade(hook, c) ==
    [i \in 1..Len(children[c]) |-> <<hook, children[c][i]>>]

\* Matrix.add_layer(layer): self + layer, then layer.on_load() if active;
\* Matrix.create_layer() builds the layer and calls add_layer
AddLayer(c, x) ==
    /\ KindOf(c) = "Matrix" /\ KindOf(x) = "Layer"
    /\ LET r == Add(Heap, c, x)
           hs == IF r.res = "ok" /\ active[c]
                 THEN <<<<"on_load", x>>>> ELSE <<>>
       IN  /\ LogRoom(hs)
           /\ Commit(r)
           /\ storage' = Hooks(storage, hs)
           /\ last' = Call("add_layer", c, x, r.res, hs)
    /\ UNCHANGED <<objs, active, scope, genVars, travVars, matchVars>>

\* Matrix.start()
Start(c) ==
    /\ KindOf(c) = "Matrix"
    /\ LET hs == IF active[c] THEN <<>> ELSE Cascade("on_load", c)
       IN  /\ LogRoom(hs)
           /\ storage' = Hooks(storage, hs)
           /\ last' = Call("start", c, None, "ok", hs)
    /\ active' = [active EXCEPT ![c] = TRUE]
    /\ UNCHANGED <<objs, parent, children, retention, retained, index,
                   scope, genVars, travVars, matchVars>>

\* Matrix.stop()
Stop(c) ==
    /\ KindOf(c) = "Matrix"
    /\ LET hs == IF active[c] THEN Cascade("on_unload", c) ELSE <<>>
       IN  /\ LogRoom(hs)
           /\ storage' = Hooks(storage, hs)
           /\ last' = Call("stop", c, None, "ok", hs)
    /\ active' = [active EXCEPT ![c] = FALSE]
    /\ UNCHANGED <<objs, parent, children, retention, retained, index,
                   scope, genVars, travVars, matchVars>>

\* no `with` block entered
NoScope ==
    [node |-> None, pc |-> "out", failed |-> FALSE, unloads |-> 0,
     propagated |-> FALSE]

\* __enter__: self.on_load(), return self
EnterHooks(x) == <<<<"on_load", x>>>>

\* __exit__: self.on_unload(); it returns None
ExitHooksNone(x) == <<>>

ExitHooks(x) == <<<<"on_unload", x>>>>

\* bool() of what __exit__ returns: None
ExitReturn == FALSE

\* `with x:` up to the start of the block
Enter(x) ==
    /\ scope.pc # "body"
    /\ LogRoom(EnterHooks(x))
    /\ storage' = Hooks(storage, EnterHooks(x))
    /\ scope' = [NoScope EXCEPT !.node = x, !.pc = "body"]
    /\ last' = Call("enter", x, None, "ok", EnterHooks(x))
    /\ UNCHANGED <<objs, parent, children, retention, retained, index,
                   active, genVars, travVars, matchVars>>

\* the end of the block, reached normally or by a failure raised inside
\* it: __exit__ runs, and the failure goes on to the caller unless
\* __exit__ returned a true value
Leave(failed) ==
    /\ scope.pc = "body"
    /\ LET hs == ExitHooks(scope.node)
       IN  /\ LogRoom(hs)
           /\ storage' = Hooks(storage, hs)
           /\ scope' = [scope EXCEPT !.pc = "left", !.failed = failed,
                                      !.unloads = Len(hs),
                                      !.propagated = failed /\ ~ExitReturn]
           /\ last' = Call("exit", scope.node, None,
                           IF failed /\ ~ExitReturn THEN "Failure" ELSE "ok", hs)
    /\ UNCHANGED <<objs, parent, children, retention, retained, index,
                   active, genVars, travVars, matchVars>>

-----------------------------------------------------------------------------
(* The * and / operators, and KMatchContext.matches.                       *)

\* node * n: [self.clone() for _ in range(n)], and no class defines clone
Mul(x, n) ==
    IF n <= 0
    THEN [res |-> "ok", ret |-> <<>>]
    ELSE [res |-> "AttributeError", ret |-> None]

\* node / parts: self.partition(parts), and no class defines partition
TrueDiv(x, parts) ==
    IF parts <= 0
    THEN [res |-> "ValueError", ret |-> None]
    ELSE [res |-> "AttributeError", ret |-> None]

CallN(op, x, n, r) ==
    [Call(op, x, None, r.res, <<>>) EXCEPT !.n = n, !.ret = r.ret]

Clone(x, n) ==
    /\ last' = CallN("clone", x, n, Mul(x, n))
    /\ UNCHANGED <<objs, parent, children, retention, retained, index,
                   active, genVars, travVars, lifeVars, matchVars>>

Partition(x, parts) ==
    /\ last' = CallN("partition", x, parts, TrueDiv(x, parts))
    /\ UNCHANGED <<objs, parent, children, retention, retained, index,
                   active, genVars, travVars, lifeVars, matchVars>>

\* A key of a KMatchContext: Absent for None, or the value supplied. The
\* predicate, when supplied, is the set of the objects it accepts.
Absent == {}
Supplied(v) == {v}
Value(k) == CHOOSE v \in k : TRUE

\* hasattr(obj, "data"), and obj.data (None unless the client gave one)
HasData(o) == KindOf(o) \in {"Leaf", "Branch", "Tree", "Node"}
DataAttr(o) == IF o \in Leaves THEN Supplied("x") ELSE Absent

\* matches() with the tests joined by `or`
MatchesAny(h, ctx, o) ==
    \/ ctx.id # Absent /\ IdOf(o) = Value(ctx.id)
    \/ ctx.hash # Absent /\ Hash(h, o) = Value(ctx.hash)
    \/ ctx.shash # Absent /\ SHash(h, o) = Value(ctx.shash)
    \/ ctx.data # Absent /\ HasData(o) /\ DataAttr(o) = ctx.data
    \/ ctx.predicate # Absent /\ o \in Value(ctx.predicate)

\* KMatchContext.matches(obj): the tests in the order of the code, each
\* returning False at once
Matches(h, ctx, o) ==
    IF ctx.id # Absent /\ IdOf(o) # Value(ctx.id) THEN FALSE
    ELSE IF ctx.hash # Absent /\ Hash(h, o) # Value(ctx.hash) THEN FALSE
    ELSE IF ctx.shash # Absent /\ SHash(h, o) # Value(ctx.shash) THEN FALSE
    ELSE IF ctx.data # Absent /\ ~HasData(o) THEN FALSE
    ELSE IF ctx.data # Absent /\ DataAttr(o) # ctx.data THEN FALSE
    ELSE IF ctx.predicate # Absent /\ o \notin Value(ctx.predicate) THEN FALSE
    ELSE TRUE

NoMatch ==
    [ctx |-> [id |-> Absent, hash |-> Absent, shash |-> Absent,
              data |-> Absent, predicate |-> Absent],
     obj |-> None, res |-> FALSE, called |-> FALSE]

\* the contexts tried: the keys named in `keys` are taken from an object y
\* of the run (data from a second choice), the predicate from `pred`
Context(y, keys, data, pred) ==
    [id |-> IF "id" \in keys THEN Supplied(IdOf(y)) ELSE Absent,
     hash |-> IF "hash" \in keys THEN Supplied(Hash(Heap, y)) ELSE Absent,
     shash |-> IF "shash" \in keys THEN Supplied(SHash(Heap, y)) ELSE Absent,
     data |-> data,
     predicate |-> pred]

\* ctx.matches(o), the one call of a run
MatchCall(ctx, o) ==
    /\ ~match.called
    /\ match' = [ctx |-> ctx, obj |-> o, res |-> Matches(Heap, ctx, o),
                 called |-> TRUE]
    /\ UNCHANGED <<treeVars, genVars, travVars, lifeVars>>

-----------------------------------------------------------------------------
(* Properties of the composition operators.                                *)

\* the parents and children as they were before the last call
Before ==
    [Heap EXCEPT !.children[last.c] = last.kids, !.parent[last.x] = last.par]

Composed == last.op = "compose"
Decomposed == last.op = "decompose"

\* C1: composing a child whose class the container does not accept fails
\* with a TypeError and leaves the container's children and the child's
\* parent as they were.
C1_TypeContract ==
    (Composed /\ KindOf(last.x) \notin AllowedChildren(KindOf(last.c)))
        => /\ last.res = "TypeError"
           /\ children[last.c] = last.kids
           /\ parent[last.x] = last.par

\* a child of a class the container does not accept has been offered to a
\* container that holds a child and was built with a policy
C1_Witness ==
    /\ Composed
    /\ last.res = "TypeError"
    /\ KindOf(last.x) \notin AllowedChildren(KindOf(last.c))
    /\ Len(children[last.c]) > 0
    /\ retention[last.c] # NoPolicy

\* C2: x.parent is c exactly when x is among c's children.
C2_ParentIffChild ==
    \A c \in Holders : \A x \in objs : (parent[x] = c) <=> InSeq(children[c], x)

\* C3: no two children of one container have equal structural hashes.
C3_NoEqualSiblings ==
    \A c \in Holders :
        \A i, j \in 1..Len(children[c]) :
            i # j => Hash(Heap, children[c][i]) # Hash(Heap, children[c][j])

\* C4: after decompose(c, x) of an attached child, which returns x and
\* leaves x without a parent, a second decompose(c, x) returns x again and
\* changes neither c's children nor x's parent.
C4_DecomposeIdempotent ==
    (Decomposed /\ last.par = last.c /\ InSeq(last.kids, last.x))
        => /\ last.res = "ok"
           /\ last.ret = last.x
           /\ parent[last.x] = None
           /\ Sub(Heap, last.c, last.x) = Outcome(Heap, "ok")

C4_Witness ==
    /\ Decomposed
    /\ last.par = last.c
    /\ InSeq(last.kids, last.x)
    /\ Len(last.kids) = 2
    /\ Len(children[last.c]) = 1

\* C13: decompose(c, x) of a child that is not among c's children raises
\* no error, leaves c's children as they were and returns the child.
C13_DecomposeTolerant ==
    (Decomposed /\ ~InSeq(last.kids, last.x))
        => /\ last.res = "ok"
           /\ last.ret = last.x
           /\ children[last.c] = last.kids

\* a compose that ended with one more child, a decompose with one fewer
Appended == Composed /\ children[last.c] = Append(last.kids, last.x)
Removed == Decomposed /\ Len(children[last.c]) = Len(last.kids) - 1

\* C5: adding or removing a child changes the container's structural hash
\* and leaves its semantic hash as it was, whatever the container's class.
C5_HashFrame ==
    (Appended \/ Removed)
        => /\ Hash(Heap, last.c) # Hash(Before, last.c)
           /\ SHash(Heap, last.c) = SHash(Before, last.c)

Silent(c) ==
    IF retention[c] = NoPolicy THEN FALSE ELSE retention[c].notify # "RAISE"

Aborting(c) ==
    IF retention[c] = NoPolicy THEN FALSE ELSE retention[c].notify = "RAISE"

\* the last call composed, into a container that was full, a child of an
\* accepted class that the container did not hold (by its own test,
\* `other not in children`)
Overflowed ==
    /\ Composed
    /\ retention[last.c] # NoPolicy
    /\ KindOf(last.x) \in AllowedChildren(KindOf(last.c))
    /\ ~Contains(Before, last.kids, last.x)
    /\ Len(last.kids) = retention[last.c].max_size

\* C6: under a silent policy of bound m, a compose into a full container
\* keeps the m oldest children with the FORWARD selector (the new child is
\* the victim) and the m newest with BACKWARD (the oldest is the victim),
\* so that after c1..cn the children are c1..cm, or c(n-m+1)..cn.
C6_EvictionSide ==
    (Overflowed /\ Silent(last.c))
        => children[last.c] =
              IF retention[last.c].prune_from = "FORWARD"
              THEN last.kids
              ELSE Tail(last.kids) \o <<last.x>>

\* The eviction side where the policy is applied to the container itself
\* (Branch, Tree, Node and Layer call retention.apply(self)).
ApplySelfEvictionSide ==
    (Composed /\ KindOf(last.c) \in {"Branch", "Tree", "Node", "Layer"})
        => C6_EvictionSide

\* C7: under an aborting policy, a compose that overflows raises the
\* policy's ValueError and the container's children are those from before
\* the call.
C7_AbortRollsBack ==
    (Overflowed /\ Aborting(last.c))
        => /\ last.res = "ValueError"
           /\ children[last.c] = last.kids

\* the last call was an insert, by + or by a typed constructor, of a child
\* of a class the container accepts
Inserted ==
    /\ last.op \in {"compose", "add_leaf", "add_branch", "add_tree",
                    "add_node", "add_net", "add_layer"}
    /\ KindOf(last.x) \in AllowedChildren(KindOf(last.c))

\* C11: every insert into a container with a silent policy of bound m
\* completes without an error and leaves the container with at most m
\* children, whatever the container's class.
C11_PolicyOnEveryInsert ==
    (Inserted /\ Silent(last.c))
        => /\ last.res = "ok"
           /\ Len(children[last.c]) <= retention[last.c].max_size

\* a key is absent or equals the candidate's attribute
KeyHolds(k, attr) == k = Absent \/ k = Supplied(attr)

\* C14: matches(candidate) is true exactly when every supplied key among
\* id, data, hash and shash equals the candidate's attribute and the
\* predicate, if there is one, accepts the candidate; an absent key
\* constrains nothing.
C14_MatchesConjunction ==
    match.called =>
        (match.res <=>
            /\ KeyHolds(match.ctx.id, IdOf(match.obj))
            /\ KeyHolds(match.ctx.hash, Hash(Heap, match.obj))
            /\ KeyHolds(match.ctx.shash, SHash(Heap, match.obj))
            /\ \/ match.ctx.data = Absent
               \/ HasData(match.obj) /\ DataAttr(match.obj) = match.ctx.data
            /\ \/ match.ctx.predicate = Absent
               \/ match.obj \in Value(match.ctx.predicate))

\* a context with every key and a predicate has matched an attached leaf
C14_Witness ==
    /\ match.called
    /\ match.res
    /\ match.ctx.id # Absent /\ match.ctx.hash # Absent
    /\ match.ctx.shash # Absent /\ match.ctx.data # Absent
    /\ match.ctx.predicate # Absent
    /\ parent[match.obj] = "B1"

\* how many times the hook was called on y in the last call
HookCount(hook, y) ==
    Cardinality({i \in 1..Len(last.hooks) : last.hooks[i] = <<hook, y>>})

\* the last call ran the hook once on every child the Matrix had, and on
\* nothing else
CascadedOnce(hook) ==
    /\ Len(last.hooks) = Len(last.kids)
    /\ \A i \in 1..Len(last.kids) : HookCount(hook, last.kids[i]) = 1

\* C15: start() on an inactive Matrix sets active and calls on_load once
\* on every Layer child, on an active one it calls no hook; stop() on an
\* active Matrix calls on_unload once on every Layer child and clears
\* active, on an inactive one it calls no hook; add_layer calls the
\* layer's on_load at once on an active Matrix and no hook on an inactive
\* one.
C15_StartStopAddLayer ==
    /\ (last.op = "start" /\ ~last.act)
          => active[last.c] /\ CascadedOnce("on_load")
    /\ (last.op = "start" /\ last.act)
          => active[last.c] /\ last.hooks = <<>>
    /\ (last.op = "stop" /\ last.act)
          => ~active[last.c] /\ CascadedOnce("on_unload")
    /\ (last.op = "stop" /\ ~last.act)
          => ~active[last.c] /\ last.hooks = <<>>
    /\ (last.op = "add_layer" /\ last.act)
          => last.hooks = <<<<"on_load", last.x>>>>
    /\ (last.op = "add_layer" /\ ~last.act)
          => last.hooks = <<>>

\* The same for start() and stop() alone.
StartStopIdempotent ==
    last.op \in {"start", "stop"} => C15_StartStopAddLayer

\* C16: the calls a storage gets for one layer alternate load, unload,
\* load, ..., starting with a load; and when an active Matrix stops, each
\* of its layers has just been unloaded.
C16_LoadUnloadAlternate ==
    /\ \A l \in Layers :
          storage[l].bound =>
              \A i \in 1..Len(storage[l].calls) :
                  storage[l].calls[i] = IF i % 2 = 1 THEN "load" ELSE "unload"
    /\ (last.op = "stop" /\ last.act)
          => \A i \in 1..Len(last.kids) :
                 LET calls == storage[last.kids[i]].calls
                 IN  storage[last.kids[i]].bound
                        => calls # <<>> /\ calls[Len(calls)] = "unload"

\* C17: when a `with node:` block that was entered is left, normally or
\* by a failure raised inside it, on_unload has run exactly once on the
\* node, and the failure, if there was one, has gone on to the caller.
C17_ScopeUnloads ==
    scope.pc = "left"
        => /\ scope.unloads = 1
           /\ scope.propagated <=> scope.failed
           /\ last.op = "exit" => last.hooks = <<<<"on_unload", scope.node>>>>

\* a failure was raised inside the block of a layer with a storage, which
\* the storage has seen loaded and then unloaded
C17_Witness ==
    /\ scope.pc = "left"
    /\ scope.failed
    /\ scope.node \in Layers
    /\ last.op = "exit" /\ last.res = "Failure"
    /\ storage[scope.node].calls = <<"load", "unload">>

\* the groups of a partition, joined in order
RECURSIVE Flatten(_)
Flatten(groups) ==
    IF groups = <<>> THEN <<>> ELSE Head(groups) \o Flatten(Tail(groups))

\* C18: node * n with n >= 0 returns n nodes, none of them the original,
\* each without a parent, and leaves the original as it was.
C18_CloneCopies ==
    (last.op = "clone" /\ last.n >= 0)
        => /\ last.res = "ok"
           /\ Len(last.ret) = last.n
           /\ \A i \in 1..Len(last.ret) : last.ret[i] # last.c
           /\ children[last.c] = last.kids

\* C19: node / k with k >= 1 returns k groups that, joined in order, are
\* the node's children and whose sizes differ by at most one; with
\* k <= 0 it fails with a ValueError and the children are unchanged.
C19_PartitionGroups ==
    last.op = "partition"
        => IF last.n >= 1
           THEN /\ last.res = "ok"
                /\ Len(last.ret) = last.n
                /\ Flatten(last.ret) = last.kids
                /\ \A i, j \in 1..Len(last.ret) :
                       Len(last.ret[i]) - Len(last.ret[j]) <= 1
           ELSE /\ last.res = "ValueError"
                /\ children[last.c] = last.kids

\* The range error of node / k alone.
PartitionRangeError ==
    (last.op = "partition" /\ last.n <= 0) => C19_PartitionGroups

\* C21: when a compose or a decompose changes the node's parent, the
\* node's structural hash changes and its semantic hash does not,
\* whatever the node's class.
C21_HashFollowsAttachment ==
    ((Inserted \/ Decomposed) /\ parent[last.x] # last.par)
        => /\ Hash(Heap, last.x) # Hash(Before, last.x)
           /\ SHash(Heap, last.x) = SHash(Before, last.x)

\* The same for the classes whose hash takes in the parent's id.
ParentHashedFollowsAttachment ==
    KindOf(last.x) \in {"Leaf", "Branch", "Tree", "Node"}
        => C21_HashFollowsAttachment

\* the retained list of a's policy is left as it was by the step
RetainedKept(a) ==
    IF retention[a] = NoPolicy
    THEN TRUE
    ELSE retained'[retention[a].retained] = retained[retention[a].retained]

\* C22: a call on one container leaves the retained list of every other
\* container's policy as it was; two containers have a policy each only
\* when one inherited it from the other with add_branch or add_tree.
C22_InheritedIndependent ==
    [][\A a \in objs \cap Containers : last'.c # a => RetainedKept(a)]_vars

-----------------------------------------------------------------------------
(* The policies a run is built with: one container is constructed with a   *)
(* KRetentionPolicy, or none is.                                           *)

Policy(m, from, type, notify, list) ==
    [max_size |-> m, prune_from |-> from, prune_type |-> type,
     notify |-> notify, retained |-> list]

Policies(list) ==
    {Policy(m, f, t, n, list) :
        m \in 1..MaxSize, f \in {"FORWARD", "BACKWARD"},
        t \in {"DISCARD", "DESTROY"}, n \in {"RAISE", "CALL", "SUPPRESS"}}

\* the container of each class that may be built with a policy
Owners == {"B1", "T1", "D1", "N1", "Y1", "M1"}

TreeInit ==
    /\ objs \in Builds
    /\ parent = [o \in Objs |-> None]
    /\ children = [o \in Objs |-> <<>>]
    /\ \E c \in (Holders \cap Owners) \cup {None} :
          \E pol \in Policies(c) :
             retention = [o \in Objs |-> IF o = c THEN pol ELSE NoPolicy]
    /\ retained = [o \in Containers |-> <<>>]
    /\ index = [o \in Nets |-> {}]
    /\ active = [o \in Matrices |-> FALSE]
    /\ last = NoCall

\* no layer has a storage, no `with` block is entered
LifeIdle ==
    /\ storage = [l \in Layers |-> [bound |-> FALSE, calls |-> <<>>]]
    /\ scope = NoScope

\* a Matrix and two layers, each layer bound to a storage
LifeInit ==
    /\ objs = {"M1", "Y1", "Y2"}
    /\ parent = [o \in Objs |-> None]
    /\ children = [o \in Objs |-> <<>>]
    /\ retention = [o \in Objs |-> NoPolicy]
    /\ retained = [o \in Containers |-> <<>>]
    /\ index = [o \in Nets |-> {}]
    /\ active = [o \in Matrices |-> FALSE]
    /\ last = NoCall
    /\ storage = [l \in Layers |-> [bound |-> l \in objs, calls |-> <<>>]]
    /\ scope = NoScope

\* a Tree that may hold a Branch, which may hold leaves, two of them of
\* equal id: the objects the * and / operators and matches() are tried on
MatchInit ==
    /\ objs = {"T1", "B1", "L1", "L2", "L3"}
    /\ \E bs \in {<<>>, <<"B1">>},
          ls \in {<<>>, <<"L1">>, <<"L2", "L3">>, <<"L1", "L2", "L3">>} :
          /\ children = [o \in Objs |-> IF o = "T1" THEN bs
                                        ELSE IF o = "B1" THEN ls ELSE <<>>]
          /\ parent = [o \in Objs |-> IF InSeq(bs, o) THEN "T1"
                                      ELSE IF InSeq(ls, o) THEN "B1" ELSE None]
    /\ retention = [o \in Objs |-> NoPolicy]
    /\ retained = [o \in Containers |-> <<>>]
    /\ index = [o \in Nets |-> {}]
    /\ active = [o \in Matrices |-> FALSE]
    /\ last = NoCall

\* no matches() call made
MatchIdle == match = NoMatch

\* no object built
TreeIdle ==
    /\ objs = {}
    /\ parent = [o \in Objs |-> None]
    /\ children = [o \in Objs |-> <<>>]
    /\ retention = [o \in Objs |-> NoPolicy]
    /\ retained = [o \in Containers |-> <<>>]
    /\ index = [o \in Nets |-> {}]
    /\ active = [o \in Matrices |-> FALSE]
    /\ last = NoCall

-----------------------------------------------------------------------------
(* gen_id(): the candidate is drawn outside the lock; under the lock it is *)
(* looked up in _GEN_IDS and either registered and returned, or gen_id()   *)
(* is called again from inside the with block.                             *)

Threads == 1..NumThreads
NoThread == 0
Cands == 1..MaxCand

GenInit ==
    /\ genIds = {}
    /\ lock = NoThread
    /\ thr = [t \in Threads |-> [pc |-> "idle", cand |-> 0, depth |-> 0, calls |-> 0]]
    /\ returned = <<>>

\* a thread calls gen_id() and draws its candidate
GenCall(t) ==
    /\ thr[t].pc = "idle"
    /\ thr[t].calls < MaxCalls
    /\ \E g \in Cands :
          thr' = [thr EXCEPT ![t] = [@ EXCEPT !.pc = "drawn", !.cand = g, !.depth = 0]]
    /\ UNCHANGED <<genIds, lock, returned, treeVars, travVars, lifeVars, matchVars>>

\* `with _GEN_IDS_LOCK:` a threading.Lock, which no thread can take twice
GenAcquire(t) ==
    /\ thr[t].pc = "drawn"
    /\ lock = NoThread
    /\ lock' = t
    /\ thr' = [thr EXCEPT ![t].pc = "locked"]
    /\ UNCHANGED <<genIds, returned, treeVars, travVars, lifeVars, matchVars>>

\* the with block, with a membership test that never finds the candidate
GenCheckBlind(t) ==
    /\ thr[t].pc = "locked"
    /\ genIds' = genIds \cup {thr[t].cand}
    /\ returned' = Append(returned, thr[t].cand)
    /\ lock' = NoThread
    /\ thr' = [thr EXCEPT ![t] = [@ EXCEPT !.pc = "idle", !.calls = @ + 1]]
    /\ UNCHANGED <<treeVars, travVars, lifeVars, matchVars>>

\* the with block: a registered candidate makes the call recurse, still
\* inside the block (the new call draws, then waits for the lock); a fresh
\* one is registered and returned, and leaving the block frees the lock
GenCheck(t) ==
    /\ thr[t].pc = "locked"
    /\ IF thr[t].cand \in genIds
       THEN /\ \E g \in Cands :
                  thr' = [thr EXCEPT ![t] = [@ EXCEPT !.pc = "drawn", !.cand = g,
                                                      !.depth = @ + 1]]
            /\ UNCHANGED <<genIds, lock, returned>>
       ELSE /\ genIds' = genIds \cup {thr[t].cand}
            /\ returned' = Append(returned, thr[t].cand)
            /\ lock' = NoThread
            /\ thr' = [thr EXCEPT ![t] = [@ EXCEPT !.pc = "idle", !.calls = @ + 1]]
    /\ UNCHANGED <<treeVars, travVars, lifeVars, matchVars>>

\* C12: a call that met a registered candidate and has drawn a fresh one
\* goes on to register and return it.
C12_RetryReturns ==
    \A t \in Threads :
        (thr[t].pc = "drawn" /\ thr[t].depth > 0 /\ thr[t].cand \notin genIds)
            ~> (thr[t].pc = "idle")

-----------------------------------------------------------------------------
(* KTraverser.traverse and KEngine.run. The nodes are any Python objects;  *)
(* here three strings, of which the empty one is false in a condition.     *)

GraphNodes == {"", "A", "B"}

\* bool(n)
Truthy(n) == n # None /\ n # ""

\* no resolver configured, no hunter registered
TravInit ==
    /\ resolvers = [children |-> [n \in GraphNodes |-> <<>>],
                    parent |-> [n \in GraphNodes |-> None],
                    transversal |-> [n \in GraphNodes |-> <<>>]]
    /\ hunters = <<>>
    /\ phase = "build"
    /\ start = None
    /\ queue = <<>>
    /\ visited = {}
    /\ yielded = <<>>
    /\ out = <<>>

EdgeCount ==
    LET Sum(f) == Len(f[""]) + Len(f["A"]) + Len(f["B"])
    IN  Sum(resolvers.children) + Sum(resolvers.transversal)
          + Cardinality({n \in GraphNodes : resolvers.parent[n] # None})

\* the graph the resolvers define: children_resolver(n) lists m
AddChild(cap, n, m) ==
    /\ phase = "build"
    /\ EdgeCount < cap
    /\ resolvers' = [resolvers EXCEPT !.children[n] = Append(@, m)]
    /\ UNCHANGED <<hunters, phase, start, queue, visited, yielded, out,
                   treeVars, genVars, lifeVars, matchVars>>

\* parent_resolver(n) is m
SetParent(cap, n, m) ==
    /\ phase = "build"
    /\ EdgeCount < cap
    /\ resolvers.parent[n] = None
    /\ resolvers' = [resolvers EXCEPT !.parent[n] = m]
    /\ UNCHANGED <<hunters, phase, start, queue, visited, yielded, out,
                   treeVars, genVars, lifeVars, matchVars>>

\* transversal_resolver(n) lists m
AddLink(cap, n, m) ==
    /\ phase = "build"
    /\ EdgeCount < cap
    /\ resolvers' = [resolvers EXCEPT !.transversal[n] = Append(@, m)]
    /\ UNCHANGED <<hunters, phase, start, queue, visited, yielded, out,
                   treeVars, genVars, lifeVars, matchVars>>

\* KEngine.add_hunter(KHunter(predicate)): the predicate accepts `accepts`
AddHunter(accepts) ==
    /\ phase = "build"
    /\ Len(hunters) < MaxHunters
    /\ hunters' = Append(hunters, accepts)
    /\ UNCHANGED <<resolvers, phase, start, queue, visited, yielded, out,
                   treeVars, genVars, lifeVars, matchVars>>

\* traverse(start), up to the loop
TraverseStart(s) ==
    /\ phase = "build"
    /\ phase' = "run"
    /\ start' = s
    /\ queue' = <<[node |-> s, path |-> <<>>]>>
    /\ visited' = {}
    /\ UNCHANGED <<resolvers, hunters, yielded, out, treeVars, genVars, lifeVars, matchVars>>

Entries(nodes, path) == [i \in 1..Len(nodes) |-> [node |-> nodes[i], path |-> path]]

\* what one visit appends to the queue: the children, the parent if it is
\* true in a condition (`if parent:`), the transversal links
Enqueued(n, path) ==
    Entries(resolvers.children[n], path)
      \o (IF Truthy(resolvers.parent[n])
          THEN <<[node |-> resolvers.parent[n], path |-> path]>>
          ELSE <<>>)
      \o Entries(resolvers.transversal[n], path)

\* whether the head of the queue is yielded (it has not been visited)
Visits(q, seen) == q # <<>> /\ Head(q).node \notin seen

\* one turn of the while loop
Loop ==
    /\ phase = "run"
    /\ queue # <<>>
    /\ IF Visits(queue, visited)
       THEN LET e == Head(queue)
            IN  /\ visited' = visited \cup {e.node}
                /\ yielded' = Append(yielded, e)
                /\ queue' = Tail(queue) \o Enqueued(e.node, Append(e.path, e.node))
       ELSE /\ queue' = Tail(queue)
            /\ UNCHANGED <<visited, yielded>>

\* the hunters asked last first
ContextsReversed(e) ==
    LET Hit(i) == e.node \in hunters[i]
        F[i \in 0..Len(hunters)] ==
            IF i = 0 THEN <<>>
            ELSE IF Hit(i)
                 THEN <<[node |-> e.node, path |-> e.path, by |-> i]>> \o F[i - 1]
                 ELSE F[i - 1]
    IN  F[Len(hunters)]

\* KHunter.hunt for every hunter, in order: the contexts of those that accept
Contexts(e) ==
    LET Hit(i) == e.node \in hunters[i]
        F[i \in 0..Len(hunters)] ==
            IF i = 0 THEN <<>>
            ELSE IF Hit(i)
                 THEN Append(F[i - 1], [node |-> e.node, path |-> e.path, by |-> i])
                 ELSE F[i - 1]
    IN  F[Len(hunters)]

\* traverse() consumed on its own
TraverseStep ==
    /\ Loop
    /\ UNCHANGED <<resolvers, hunters, phase, start, out, treeVars, genVars, lifeVars, matchVars>>

\* KEngine.run: each yielded node goes to every hunter
RunStep ==
    /\ Loop
    /\ out' = IF Visits(queue, visited) THEN out \o Contexts(Head(queue)) ELSE out
    /\ UNCHANGED <<resolvers, hunters, phase, start, treeVars, genVars, lifeVars, matchVars>>

\* the queue is empty: the generator ends
TraverseEnd ==
    /\ phase = "run"
    /\ queue = <<>>
    /\ phase' = "done"
    /\ UNCHANGED <<resolvers, hunters, start, queue, visited, yielded, out,
                   treeVars, genVars, lifeVars, matchVars>>

-----------------------------------------------------------------------------
(* Properties of gen_id, the traverser and the engine.                     *)

\* C9: no two gen_id() calls that return have returned the same string,
\* and every returned string is registered.
C9_DistinctIds ==
    /\ \A i, j \in 1..Len(returned) : i # j => returned[i] # returned[j]
    /\ \A i \in 1..Len(returned) : returned[i] \in genIds

\* two calls have returned while a third, by another thread, met a
\* registered candidate
C9_Witness ==
    /\ Len(returned) >= 2
    /\ \E t, u \in Threads :
          /\ t # u
          /\ thr[t].depth > 0
          /\ thr[u].calls > 0

Range(f) == {f[i] : i \in DOMAIN f}

\* the nodes the resolvers give for n
Neighbours(n) ==
    Range(resolvers.children[n])
      \cup ({resolvers.parent[n]} \ {None})
      \cup Range(resolvers.transversal[n])

\* the nodes reachable from s along the resolvers' edges
Reach(s) ==
    LET R[k \in 0..Cardinality(GraphNodes)] ==
            IF k = 0 THEN {s}
            ELSE R[k - 1] \cup UNION {Neighbours(n) : n \in R[k - 1]}
    IN  R[Cardinality(GraphNodes)]

Yields(n) == {i \in 1..Len(yielded) : yielded[i].node = n}

\* C8: a traversal that has ended has yielded every node reachable from
\* its start exactly once, and no other node.
C8_VisitsReachableOnce ==
    phase = "done"
        => /\ \A n \in Reach(start) : Cardinality(Yields(n)) = 1
           /\ \A i \in 1..Len(yielded) : yielded[i].node \in Reach(start)

\* What traverse() does guarantee: no node is yielded twice and none that is
\* unreachable, whether or not the graph has cycles.
TraverseVisitsOnce ==
    /\ \A n \in GraphNodes : Cardinality(Yields(n)) <= 1
    /\ \A i \in 1..Len(yielded) : yielded[i].node \in Reach(start)

\* and, consumed to its end, it ends
TraverseTerminates == (phase = "run") ~> (phase = "done")

\* the nodes at most k resolver edges away from s
Within(s, k) ==
    LET R[j \in 0..k] ==
            IF j = 0 THEN {s}
            ELSE R[j - 1] \cup UNION {Neighbours(n) : n \in R[j - 1]}
    IN  R[k]

\* the least number of resolver edges from s to a node n it reaches
Distance(s, n) ==
    CHOOSE k \in 0..Cardinality(GraphNodes) :
        /\ n \in Within(s, k)
        /\ \A j \in 0..(k - 1) : n \notin Within(s, j)

\* the yielded paths never get shorter, and each is the yielded path of its
\* last node followed by that node (empty for the start)
PathsInLevelOrder ==
    /\ \A i, j \in 1..Len(yielded) :
          i < j => Len(yielded[i].path) <= Len(yielded[j].path)
    /\ \A i \in 1..Len(yielded) :
          LET p == yielded[i].path
          IN  IF yielded[i].node = start /\ i = 1
              THEN p = <<>>
              ELSE /\ p # <<>>
                   /\ \E k \in 1..Len(yielded) :
                         /\ yielded[k].node = p[Len(p)]
                         /\ p = Append(yielded[k].path, p[Len(p)])

\* C20: traverse() yields in level order, each path being the path of its
\* last node followed by that node, and the length of a node's path is
\* its least distance from the start along the resolvers' edges.
C20_LevelOrder ==
    /\ PathsInLevelOrder
    /\ \A i \in 1..Len(yielded) :
          Len(yielded[i].path) = Distance(start, yielded[i].node)

\* the module's children_resolver: getattr(obj, "children", None), a
\* property that Net, Layer and Matrix define; traverse() reads None as
\* no children
ChildrenResolver(h, o) ==
    IF KindOf(o) \in {"Net", "Layer", "Matrix"} THEN h.children[o] ELSE <<>>

\* KTraverser(children_resolver=children_resolver) over the hierarchy
ModuleResolvers ==
    [children |-> [o \in Objs |-> ChildrenResolver(Heap, o)],
     parent |-> [o \in Objs |-> None],
     transversal |-> [o \in Objs |-> <<>>]]

\* the chain of the classes, from the Matrix down to a Leaf
Chain == <<"M1", "Y1", "N1", "D1", "T1", "B1", "L1">>

\* A hierarchy built along the chain: the links in `links` are made, each
\* container holding the next object of the chain, and the Branch may
\* hold a second leaf.
WalkInit ==
    /\ objs = Range(Chain) \cup {"L2"}
    /\ \E links \in SUBSET (1..(Len(Chain) - 1)), second \in BOOLEAN :
          LET Kids(o) ==
                  IF \E i \in links : Chain[i] = o
                  THEN <<Chain[(CHOOSE i \in links : Chain[i] = o) + 1]>>
                  ELSE <<>>
              More(o) == IF o = "B1" /\ second THEN <<"L2">> ELSE <<>>
          IN  /\ children = [o \in Objs |-> Kids(o) \o More(o)]
              /\ parent = [o \in Objs |->
                              IF \E c \in Objs : InSeq(Kids(c) \o More(c), o)
                              THEN CHOOSE c \in Objs : InSeq(Kids(c) \o More(c), o)
                              ELSE None]
    /\ retention = [o \in Objs |-> NoPolicy]
    /\ retained = [o \in Containers |-> <<>>]
    /\ index = [o \in Nets |-> {}]
    /\ active = [o \in Matrices |-> FALSE]
    /\ last = NoCall
    /\ resolvers = ModuleResolvers
    /\ hunters = <<>>
    /\ phase = "build"
    /\ start = None
    /\ queue = <<>>
    /\ visited = {}
    /\ yielded = <<>>
    /\ out = <<>>

\* the objects under s along the containers' children sequences, s included
Hierarchy(s) ==
    LET R[k \in 0..Len(Chain)] ==
            IF k = 0 THEN {s}
            ELSE R[k - 1] \cup UNION {Range(children[n]) : n \in R[k - 1]}
    IN  R[Len(Chain)]

\* C23: a traversal with the module's children_resolver, started at the
\* root of a hierarchy and consumed to its end, has yielded every object
\* of the hierarchy exactly once, and nothing else.
C23_WalkVisitsHierarchy ==
    phase = "done"
        => /\ \A n \in Hierarchy(start) : Cardinality(Yields(n)) = 1
           /\ \A i \in 1..Len(yielded) : yielded[i].node \in Hierarchy(start)

\* The same down to the nodes of a Net, where the children property ends.
WalkVisitsDownToNodes ==
    phase = "done"
        => /\ \A n \in Hierarchy(start) :
                 KindOf(n) \in {"Matrix", "Layer", "Net", "Node"}
                     => Cardinality(Yields(n)) = 1
           /\ \A i \in 1..Len(yielded) : yielded[i].node \in Hierarchy(start)

\* where in traverse()'s visit order a node is
VisitIndex(n) == CHOOSE i \in 1..Len(yielded) : yielded[i].node = n

\* C10: run() yields one context for every visited node and every hunter
\* that accepts it, and no other; the contexts come in visit order, those
\* of one node in the hunters' registration order.
C10_RunOrder ==
    /\ \A k \in 1..Len(out) :
          /\ out[k].node \in hunters[out[k].by]
          /\ Yields(out[k].node) # {}
          /\ out[k].path = yielded[VisitIndex(out[k].node)].path
    /\ \A i \in 1..Len(yielded) : \A h \in 1..Len(hunters) :
          yielded[i].node \in hunters[h]
              => Cardinality({k \in 1..Len(out) :
                                 out[k].node = yielded[i].node /\ out[k].by = h}) = 1
    /\ \A k, l \in 1..Len(out) :
          k < l => \/ VisitIndex(out[k].node) < VisitIndex(out[l].node)
                   \/ /\ out[k].node = out[l].node
                      /\ out[k].by < out[l].by

\* a path of three nodes, the second accepted by the first hunter, the
\* third by both: three contexts
C10_Witness ==
    /\ phase = "done"
    /\ Len(hunters) = 2
    /\ Len(yielded) = 3
    /\ yielded[3].path = <<yielded[1].node, yielded[2].node>>
    /\ Len(out) = 3
    /\ out[1].node = yielded[2].node /\ out[1].by = 1
    /\ out[2].node = yielded[3].node /\ out[2].by = 1
    /\ out[3].node = yielded[3].node /\ out[3].by = 2

-----------------------------------------------------------------------------
(* The specifications.                                                     *)

Init == TreeInit /\ GenInit /\ TravInit /\ LifeIdle /\ MatchIdle

Next ==
    \/ \E c \in Holders, x \in objs \cup Strangers : Compose(c, x)
    \/ \E c \in Holders, x \in objs : Decompose(c, x)
    \/ \E c \in Holders, x \in objs : AddLeaf(c, x)
    \/ \E c \in Holders, x \in objs, inherit \in BOOLEAN : AddBranch(c, x, inherit)
    \/ \E c \in Holders, x \in objs, inherit \in BOOLEAN : AddTree(c, x, inherit)
    \/ \E c \in Holders, x \in objs : AddNode(c, x)
    \/ \E c \in Holders, x \in objs : AddNet(c, x)
    \/ \E c \in Holders, x \in objs : AddLayer(c, x)
    \/ \E c \in Holders : Start(c)
    \/ \E c \in Holders : Stop(c)

\* the hierarchy and its operators
Spec == Init /\ [][Next]_vars

InitGen == TreeIdle /\ GenInit /\ TravInit /\ LifeIdle /\ MatchIdle

NextGen ==
    \/ \E t \in Threads : GenCall(t)
    \/ \E t \in Threads : GenAcquire(t)
    \/ \E t \in Threads : GenCheck(t)

\* concurrent gen_id() calls
SpecGen == InitGen /\ [][NextGen]_vars

\* the same, every thread running whenever it can take a step
SpecGenFair ==
    /\ SpecGen
    /\ \A t \in Threads : WF_vars(GenAcquire(t)) /\ WF_vars(GenCheck(t))

InitTrav == TreeIdle /\ GenInit /\ TravInit /\ LifeIdle /\ MatchIdle

NextTrav ==
    \/ \E n, m \in GraphNodes : AddChild(MaxEdges, n, m)
    \/ \E n, m \in GraphNodes : SetParent(MaxEdges, n, m)
    \/ \E n, m \in GraphNodes : AddLink(MaxEdges, n, m)
    \/ \E s \in GraphNodes : TraverseStart(s)
    \/ TraverseStep
    \/ TraverseEnd

\* traverse() over every graph of at most MaxEdges edges
SpecTrav == InitTrav /\ [][NextTrav]_vars

\* the same, with traverse() consumed to its end
SpecTravFair == SpecTrav /\ WF_vars(TraverseStep) /\ WF_vars(TraverseEnd)

\* the engine's traverser is given a children resolver only
NextEngine ==
    \/ \E n, m \in GraphNodes : AddChild(MaxEngineEdges, n, m)
    \/ \E a \in SUBSET GraphNodes : AddHunter(a)
    \/ \E s \in GraphNodes : TraverseStart(s)
    \/ RunStep
    \/ TraverseEnd

\* KEngine.run() over every graph of at most MaxEngineEdges child edges
SpecEngine == InitTrav /\ [][NextEngine]_vars

InitLife == LifeInit /\ GenInit /\ TravInit /\ MatchIdle

NextLife ==
    \/ \E c \in Holders, x \in objs : Compose(c, x)
    \/ \E c \in Holders, x \in objs : Decompose(c, x)
    \/ \E c \in Holders, x \in objs : AddLayer(c, x)
    \/ \E c \in Holders : Start(c)
    \/ \E c \in Holders : Stop(c)
    \/ \E x \in objs : Enter(x)
    \/ \E failed \in BOOLEAN : Leave(failed)

\* a Matrix, its layers and their storages
SpecLife == InitLife /\ [][NextLife]_vars

InitPure == MatchInit /\ GenInit /\ TravInit /\ LifeIdle /\ MatchIdle

NextMulDiv ==
    \/ \E x \in objs, n \in -1..MaxCount : Clone(x, n)
    \/ \E x \in objs, n \in -1..MaxCount : Partition(x, n)

\* node * n and node / parts
SpecMulDiv == InitPure /\ [][NextMulDiv]_vars

NextMatch ==
    \E y, o \in objs, keys \in SUBSET {"id", "hash", "shash"},
       data \in {Absent, Supplied("x"), Supplied("y")} :
        \E pred \in {Absent, Supplied({}), Supplied({y})} :
            MatchCall(Context(y, keys, data, pred), o)

\* KMatchContext.matches over the contexts and the objects of a run
SpecMatch == InitPure /\ [][NextMatch]_vars

InitWalk == WalkInit /\ GenInit /\ LifeIdle /\ MatchIdle

NextWalk ==
    \/ \E s \in objs : TraverseStart(s)
    \/ TraverseStep
    \/ TraverseEnd

\* traverse() with the module's children_resolver over a built hierarchy
SpecWalk == InitWalk /\ [][NextWalk]_vars

====
